---- MODULE Spec2Model ----
(***************************************************************************)
(* A model of spark-fs (src/src/fs.rs, src/src/path.rs, src/src/io/mod.rs). *)
(*                                                                         *)
(* fs.rs is not valid Rust as it stands.  The model reads it by two rules   *)
(* and nothing else:                                                        *)
(*   - an `Ok(..);` or `Err(..);` in statement position yields the          *)
(*     function's result at that point (the function returns it);           *)
(*   - in FileSystem::new, `self` is the value under construction.          *)
(* Everything that has a definite control or data flow is taken as written. *)
(*                                                                         *)
(* Widths are scaled: a byte has BYTE_BITS bits, a u32 is four bytes.       *)
(***************************************************************************)
EXTENDS Integers, Sequences, FiniteSets, TLC

\* ------------------------------------------------------------------ bounds
\* bits of a byte (8 in the program)
BYTE_BITS == 3
\* fs.rs:6 SECTOR_SIZE = 4096, scaled
SECTOR_SIZE == 12
\* path.rs:3 MAX_PATH_LENGTH = 255, scaled
MAX_PATH_LENGTH == 1
\* fs.rs:11 MAX_SECTORS = 1048576, scaled
MAX_SECTORS == 3
\* fs.rs:13 MAX_OPEN_FILES = 128, scaled
MAX_OPEN_FILES == 2
\* depth of recursion the stack holds
MaxStack == 2
\* longest buffer handed to one write
MaxWrite == 4
\* writes in one run
MaxWrites == 3
\* opens in one run
MaxOpens == 2
\* fs.rs:8 MAX_DESCRIPTORS (16, commented out), scaled
MAX_DESCRIPTORS == 2
\* fs.rs:5 MAX_FILES (16, commented out), scaled
MAX_FILES == 2
\* fs.rs:478 MAX_FILE_SIZE (not defined in the sources)
MAX_FILE_SIZE == 4
\* fs.rs:574 FILE_RAW_SIZE (not defined in the sources)
FILE_RAW_SIZE == 5
\* longest buffer handed to one read
MaxBuf == 5
\* reads, writes and opens through the fixed tables in one run
MaxIO == 3
\* longest buffer handed to one chained write
MaxLong == 7

\* ------------------------------------------------------------ numeric types
ByteRadix == 2 ^ BYTE_BITS
Byte == 0 .. (ByteRadix - 1)
U32_MAX == (ByteRadix ^ 4) - 1
FD_MAGIC_NUMBER == 196 % ByteRadix

Min(a, b) == IF a < b THEN a ELSE b

RECURSIVE BitAnd(_, _)
BitAnd(a, b) ==
  IF a = 0 \/ b = 0 THEN 0
  ELSE (IF (a % 2 = 1) /\ (b % 2 = 1) THEN 1 ELSE 0) + 2 * BitAnd(a \div 2, b \div 2)

\* x << (8*k), x a byte
Shl(x, k) == x * (ByteRadix ^ k)

transform_u32_to_array_of_u8(x) ==
  << (x \div (ByteRadix ^ 3)) % ByteRadix,
     (x \div (ByteRadix ^ 2)) % ByteRadix,
     (x \div ByteRadix) % ByteRadix,
     x % ByteRadix >>

transform_array_of_u8_to_u32(x) ==
  LET y0 == Shl(x[1], 3)
      y1 == BitAnd(y0, Shl(x[2], 2))
      y2 == BitAnd(y1, Shl(x[3], 1))
  IN  BitAnd(y2, x[4])

\* ------------------------------------------------------------ backing store
\* The device holds one sector more than MAX_SECTORS, so that both arms of
\* min(MAX_SECTORS, capacity / SECTOR_SIZE) occur.
StorageLen == (MAX_SECTORS + 1) * SECTOR_SIZE

\* A device is [data, pos]; these are the Cursor's seek, write and read.
DevSeek(dev, p) == [dev EXCEPT !.pos = p]

DevWrite(dev, bytes) ==
  LET n == IF dev.pos >= StorageLen THEN 0 ELSE Min(Len(bytes), StorageLen - dev.pos)
  IN  [data |-> [a \in 0 .. (StorageLen - 1) |->
                   IF a >= dev.pos /\ a < dev.pos + n THEN bytes[a - dev.pos + 1]
                   ELSE dev.data[a]],
       pos |-> dev.pos + n]

\* the bytes a read of n bytes leaves in a zeroed buffer
DevRead(dev, n) ==
  [i \in 1 .. n |-> IF dev.pos + i - 1 < StorageLen THEN dev.data[dev.pos + i - 1] ELSE 0]

DevAdvance(dev, n) ==
  [dev EXCEPT !.pos = IF dev.pos >= StorageLen THEN dev.pos
                      ELSE dev.pos + Min(n, StorageLen - dev.pos)]

\* ------------------------------------------------------------------- paths
Path == [1 .. MAX_PATH_LENGTH -> Byte]
from_ascii_str(s) == [i \in 1 .. MAX_PATH_LENGTH |-> IF i <= Len(s) THEN s[i] ELSE 0]
raw_buf(p) == p

\* the names the model's callers use
NameA == from_ascii_str(<<1>>)
NameB == from_ascii_str(<<2>>)
Names == { NameA, NameB }
RootName == from_ascii_str(<<3>>)

\* ----------------------------------------------------------- header codec
FileTypes == {"folder", "exec", "default"}
FileFlags == {"special", "readonly", "readwrite"}
TypeCode(t) == CASE t = "folder" -> 0 [] t = "exec" -> 1 [] t = "default" -> 2 [] OTHER -> 3
FlagCode(f) == CASE f = "special" -> 0 [] f = "readonly" -> 1 [] f = "readwrite" -> 2 [] OTHER -> 3

HEADER_LEN == 4 + MAX_PATH_LENGTH

FileDescriptor(t, f, name, locks, wl) ==
  [filetype |-> t, fileflag |-> f, filename |-> name, active_locks |-> locks, writelock |-> wl]

\* the bytes create_fd and write_header put after the chain pointer
HeaderBytes(ftype, fflag, name) ==
  << FD_MAGIC_NUMBER, TypeCode(ftype), FlagCode(fflag), 0 >> \o raw_buf(name)

create_fd(dev, ftype, fflag, name) == DevWrite(dev, HeaderBytes(ftype, fflag, name))

\* write_shorthead's write; its current_position += 4 is applied by the caller
write_shorthead(dev, x) == DevWrite(dev, transform_u32_to_array_of_u8(x))

write_header(dev, header) ==
  DevWrite(write_shorthead(dev, U32_MAX),
           HeaderBytes(header.filetype, header.fileflag, header.filename))

\* read_shorthead's value; the position moves by 4
read_shorthead(dev) == transform_array_of_u8_to_u32(DevRead(dev, 4))

\* read_header at the device's position. writelock is not among the fields the
\* code sets: wl stands for the value it happens to have.
read_header(dev, wl) ==
  LET b == DevRead(dev, HEADER_LEN)
  IN  IF b[1] # FD_MAGIC_NUMBER THEN [ok |-> FALSE, used |-> 1]
      ELSE IF b[2] \notin {0, 1, 2} THEN [ok |-> FALSE, used |-> 2]
      ELSE IF b[3] \notin {0, 1, 2} THEN [ok |-> FALSE, used |-> 3]
      ELSE [ok |-> TRUE, used |-> HEADER_LEN,
            fd |-> FileDescriptor(
                     CASE b[2] = 0 -> "folder" [] b[2] = 1 -> "exec" [] OTHER -> "default",
                     CASE b[3] = 2 -> "readwrite" [] b[3] = 1 -> "readonly" [] OTHER -> "special",
                     [i \in 1 .. MAX_PATH_LENGTH |-> b[4 + i]],
                     b[4],
                     wl)]

\* --------------------------------------------------------- sector allocator
UsableSectors(cap) == Min(MAX_SECTORS, cap \div SECTOR_SIZE)

RECURSIVE ScanSectors(_, _, _)
ScanSectors(sec, cap, i) ==
  IF i < MAX_SECTORS /\ i < (cap \div SECTOR_SIZE)
  THEN IF ~sec[i] THEN [res |-> "Ok", val |-> i, sectors |-> [sec EXCEPT ![i] = TRUE]]
       ELSE ScanSectors(sec, cap, i + 1)
  ELSE [res |-> "OutOfSpace", val |-> MAX_SECTORS, sectors |-> sec]

\* variants: the highest free index is taken; the index taken is not marked
get_valid_sector_last(sec, cap) ==
  LET free == { i \in 0 .. (MAX_SECTORS - 1) : i < (cap \div SECTOR_SIZE) /\ ~sec[i] }
  IN  IF free = {} THEN ScanSectors(sec, cap, 0)
      ELSE LET m == CHOOSE i \in free : \A j \in free : j <= i
           IN  [res |-> "Ok", val |-> m, sectors |-> [sec EXCEPT ![m] = TRUE]]

get_valid_sector_unmarked(sec, cap) == [ScanSectors(sec, cap, 0) EXCEPT !.sectors = sec]

get_valid_sector(sec, cap) == ScanSectors(sec, cap, 0)

\* ------------------------------------------------------------------ state
VARIABLES
  storage,          \* the backing store's bytes
  spos,             \* the backing store's position
  sectors,          \* FileSystem.sectors
  capacity,         \* FileSystem.capacity
  current_sector,   \* FileSystem.current_sector
  current_position, \* FileSystem.current_position
  file_handles,     \* FileSystem.file_handles
  handle_usage,     \* FileSystem.handle_usage
  dir,              \* what navigate resolves each name to
  chains,           \* per head sector, the sectors allocated for that file, in order
  cur_file,         \* the head sector of the file the write cursor was placed in
  free_sector,      \* the argument of the running free_auto activation
  free_depth,       \* its depth of recursion
  freeing,          \* the free_auto or free_children call in progress
  crashed,          \* the process has aborted
  ncalls,           \* the writes or opens made so far
  descriptors,      \* the descriptors table close and get_reader index
  headers,          \* the headers table close and get_reader index
  debug_assertions, \* whether the build keeps debug_assert!
  outstanding,      \* the handles open_file returned that were not closed since
  rt,               \* how far a create, write, close, reopen, read sequence has come
  ret               \* the last operation and what it returned

vars == << storage, spos, sectors, capacity, current_sector, current_position,
           file_handles, handle_usage, dir, chains, cur_file, free_sector,
           free_depth, freeing, crashed, ncalls, descriptors, headers,
           debug_assertions, outstanding, rt, ret >>

\* what the allocator's and the writer's operations leave alone
tables == << file_handles, handle_usage, descriptors, headers, debug_assertions,
             outstanding, rt >>

Dev == [data |-> storage, pos |-> spos]
SectorIds == 0 .. (MAX_SECTORS - 1)
NoSector == MAX_SECTORS
Idle == free_sector = NoSector /\ crashed = "no"

\* the sizes FileSystem::new is given: one that ends inside a sector, one
\* that holds more sectors than MAX_SECTORS
Capacities == { (MAX_SECTORS - 1) * SECTOR_SIZE + (SECTOR_SIZE \div 2), StorageLen }

EmptyHandle ==
  [current_position |-> 0, open_mode |-> "error",
   fdesc |-> FileDescriptor("error", "error", from_ascii_str(<< >>), 0, FALSE)]

HandleIds == 0 .. (MAX_OPEN_FILES - 1)
DescIds == 0 .. (MAX_DESCRIPTORS - 1)
FileIds == 0 .. (MAX_FILES - 1)

\* FileSystem::new over a zeroed store
new ==
  /\ capacity \in Capacities
  /\ LET dev == create_fd([data |-> [a \in 0 .. (StorageLen - 1) |-> 0], pos |-> 0],
                          "folder", "special", RootName)
     IN  storage = dev.data /\ spos = dev.pos
  /\ sectors = [i \in SectorIds |-> i = 0]
  /\ current_sector = 0
  /\ current_position = 0
  /\ handle_usage = [i \in HandleIds |-> FALSE]
  /\ file_handles = [i \in HandleIds |-> EmptyHandle]
  /\ dir = [n \in Names |-> NoSector]
  /\ chains = [h \in SectorIds |-> IF h = 0 THEN << 0 >> ELSE << >>]
  /\ cur_file = NoSector
  /\ free_sector = NoSector
  /\ free_depth = 0
  /\ freeing = [kind |-> "none"]
  /\ crashed = "no"
  /\ ncalls = 0
  /\ debug_assertions \in BOOLEAN
  /\ ret = [op |-> "new", res |-> "Ok"]

NoDescriptor == [used |-> FALSE, index |-> 0, pos |-> 0, writing |-> FALSE]
NON_EXISTING_FILE ==
  [exists |-> FALSE, name |-> from_ascii_str(<< >>), len |-> 0,
   active_readers |-> 0, write_locked |-> FALSE]

RtOff == [phase |-> "off", fd |-> 0, B |-> << >>, got |-> << >>]

Init ==
  /\ new
  /\ descriptors = [d \in DescIds |-> NoDescriptor]
  /\ headers = [f \in FileIds |-> NON_EXISTING_FILE]
  /\ outstanding = {}
  /\ rt = RtOff

\* ----------------------------------------------------------- chained write
PayloadStart(s) == SECTOR_SIZE * s + 4 + HEADER_LEN

\* the bytes a caller writes
PayloadByte == ByteRadix - 1
Payload(n) == [i \in 1 .. n |-> PayloadByte]

\* write_auto over w = [dev, sectors, cs, cp, res, got]; got lists the sectors
\* it allocated
RECURSIVE write_auto(_, _, _)
write_auto(w, cap, buf) ==
  LET room == SECTOR_SIZE - (w.cp % SECTOR_SIZE)
  IN  IF Len(buf) > room
      THEN LET buf1 == SubSeq(buf, room + 1, Len(buf))
               d1 == DevWrite(w.dev, SubSeq(buf, 1, room))
               d2 == DevSeek(d1, w.cs * SECTOR_SIZE)
               cp2 == w.cs * SECTOR_SIZE
               a == get_valid_sector(w.sectors, cap)
           IN  IF a.res # "Ok"
               THEN [w EXCEPT !.dev = d2, !.cp = cp2, !.res = a.res]
               ELSE LET d3 == write_shorthead(d2, a.val)
                        d4 == DevSeek(d3, a.val * SECTOR_SIZE)
                    IN  write_auto([dev |-> d4, sectors |-> a.sectors, cs |-> a.val,
                                    cp |-> a.val * SECTOR_SIZE, res |-> w.res,
                                    got |-> Append(w.got, a.val)],
                                   cap, buf1)
      ELSE [w EXCEPT !.dev = DevWrite(w.dev, buf), !.cp = w.cp + Len(buf)]

\* the sectors allocated for the file whose head is h
ChainOf(h) == { chains[h][k] : k \in 1 .. Len(chains[h]) }
FreeSet == { i \in SectorIds : i < UsableSectors(capacity) /\ ~sectors[i] }
Exhausted == FreeSet = {}

\* ---------------------------------------------------------------- actions
\* Creation as the spec's 4.5 states it (create is unfinished in fs.rs): a
\* fresh sector, the header written at its start, the name resolvable, the
\* write cursor after the header.
MakeFile(name, ftype, fflag) ==
  /\ Idle
  /\ dir[name] = NoSector
  /\ LET a == get_valid_sector(sectors, capacity)
     IN  IF a.res # "Ok"
         THEN /\ ret' = [op |-> "create", res |-> a.res]
              /\ UNCHANGED << storage, spos, sectors, current_sector, current_position,
                              dir, chains, cur_file >>
         ELSE LET d == write_header(DevSeek(Dev, SECTOR_SIZE * a.val),
                                    FileDescriptor(ftype, fflag, name, 0, FALSE))
              IN  /\ storage' = d.data
                  /\ spos' = d.pos
                  /\ sectors' = a.sectors
                  /\ current_sector' = a.val
                  /\ current_position' = PayloadStart(a.val)
                  /\ dir' = [dir EXCEPT ![name] = a.val]
                  /\ chains' = [chains EXCEPT ![a.val] = << a.val >>]
                  /\ cur_file' = a.val
                  /\ ret' = [op |-> "create", res |-> "Ok", val |-> a.val]
  /\ UNCHANGED << capacity, tables, free_sector, free_depth,
                  freeing, crashed, ncalls >>

\* the write cursor placed at the first payload byte of a file (4.3)
SeekFile(name) ==
  /\ Idle
  /\ dir[name] # NoSector
  /\ cur_file # dir[name]
  /\ spos' = PayloadStart(dir[name])
  /\ current_sector' = dir[name]
  /\ current_position' = PayloadStart(dir[name])
  /\ cur_file' = dir[name]
  /\ ret' = [op |-> "seek", res |-> "Ok"]
  /\ UNCHANGED << storage, sectors, capacity, tables, dir, chains,
                  free_sector, free_depth, freeing, crashed, ncalls >>

WriteAuto(n) ==
  /\ Idle
  /\ cur_file # NoSector
  /\ ncalls < MaxWrites
  /\ ncalls' = ncalls + 1
  /\ LET w == write_auto([dev |-> Dev, sectors |-> sectors, cs |-> current_sector,
                          cp |-> current_position, res |-> "Ok", got |-> << >>],
                         capacity, Payload(n))
     IN  /\ storage' = w.dev.data
         /\ spos' = w.dev.pos
         /\ sectors' = w.sectors
         /\ current_sector' = w.cs
         /\ current_position' = w.cp
         /\ chains' = [chains EXCEPT ![cur_file] = @ \o w.got]
         /\ ret' = [op |-> "write", res |-> w.res, len |-> n, got |-> w.got]
  /\ UNCHANGED << capacity, tables, dir, cur_file, free_sector,
                  free_depth, freeing, crashed >>

\* free_auto(dir[name]) is called; its activations run one per step
FreeAutoCall(name) ==
  /\ Idle
  /\ dir[name] # NoSector
  /\ free_sector' = dir[name]
  /\ free_depth' = 1
  /\ freeing' = [kind |-> "free_auto", head |-> dir[name], chain |-> ChainOf(dir[name]),
                 before |-> sectors, full |-> Exhausted]
  /\ ret' = [op |-> "free_auto", res |-> "running"]
  /\ UNCHANGED << storage, spos, sectors, capacity, current_sector, current_position,
                  tables, dir, chains, cur_file, crashed, ncalls >>

\* free_children(dir[name]) up to its call of free_auto
FreeChildrenCall(name) ==
  /\ Idle
  /\ dir[name] # NoSector
  /\ LET d == DevSeek(Dev, SECTOR_SIZE * dir[name])
         pointer == read_shorthead(d)
     IN  /\ spos' = DevAdvance(d, 4).pos
         /\ current_position' = current_position + 4
         /\ IF pointer = MAX_SECTORS
            THEN /\ UNCHANGED << free_sector, free_depth, freeing >>
                 /\ ret' = [op |-> "free_children", res |-> "Ok"]
            ELSE /\ free_sector' = pointer
                 /\ free_depth' = 1
                 /\ freeing' = [kind |-> "free_children", head |-> dir[name],
                                chain |-> ChainOf(dir[name]) \ {dir[name]},
                                before |-> sectors, full |-> Exhausted]
                 /\ ret' = [op |-> "free_children", res |-> "running"]
  /\ UNCHANGED << storage, sectors, capacity, current_sector, tables, dir, chains, cur_file, crashed, ncalls >>

\* one activation of free_auto(free_sector)
FreeAutoStep ==
  /\ free_sector # NoSector
  /\ crashed = "no"
  /\ LET d == DevSeek(Dev, SECTOR_SIZE * free_sector)
         pointer == read_shorthead(d)
     IN  /\ spos' = DevAdvance(d, 4).pos
         /\ current_position' = current_position + 4
         /\ sectors' = [sectors EXCEPT ![free_sector] = FALSE]
         /\ IF pointer = MAX_SECTORS
            THEN /\ free_sector' = NoSector
                 /\ free_depth' = 0
                 /\ crashed' = crashed
                 /\ ret' = [op |-> freeing.kind, res |-> "Ok"]
            ELSE IF free_depth >= MaxStack
            THEN /\ crashed' = "stack overflow"
                 /\ UNCHANGED << free_sector, free_depth >>
                 /\ ret' = [op |-> freeing.kind, res |-> "abort"]
            ELSE /\ free_sector' = pointer
                 /\ free_depth' = free_depth + 1
                 /\ crashed' = crashed
                 /\ ret' = ret
  /\ UNCHANGED << storage, capacity, current_sector, tables, dir,
                  chains, cur_file, freeing, ncalls >>

\* ------------------------------------------------------ lock & handle table
OpenModes == {"read", "readwrite", "write", "append"}

\* navigate's own reads: seek to 0, read_header; what it returns is dir
navigate(dev, name) ==
  LET d == DevSeek(dev, 0)
  IN  [dev |-> DevAdvance(d, read_header(d, FALSE).used), sect |-> dir[name]]

\* the loop returns in its first pass: only slot 0 is ever looked at
create_handle(usage, handles, fdesc, mode) ==
  IF ~usage[0]
  THEN [val |-> 0,
        usage |-> [usage EXCEPT ![0] = TRUE],
        handles |-> [handles EXCEPT ![0] =
                       [current_position |-> 0, open_mode |-> mode, fdesc |-> fdesc]]]
  ELSE [val |-> MAX_OPEN_FILES, usage |-> usage, handles |-> handles]

Opened(usage, handles, fdesc, mode) ==
  LET c == create_handle(usage, handles, fdesc, mode)
  IN  [res |-> "Ok", val |-> c.val, usage |-> c.usage, handles |-> c.handles]

Refused(usage, handles, why) ==
  [res |-> why, val |-> MAX_OPEN_FILES, usage |-> usage, handles |-> handles]

\* variant: the handle is made before the lock is looked at
open_file_arm_early(descr, mode, usage, handles) ==
  [Opened(usage, handles, descr, mode) EXCEPT
     !.res = IF descr.writelock THEN "Conflict" ELSE "Ok"]

\* the match of open_file on the mode; append and overwrite have no arm
open_file_arm(descr, mode, usage, handles) ==
  CASE mode = "read" ->
         IF ~descr.writelock
         THEN Opened(usage, handles,
                     [descr EXCEPT !.active_locks = (@ + 1) % ByteRadix], mode)
         ELSE Refused(usage, handles, "Conflict")
    [] mode = "readwrite" ->
         IF descr.writelock THEN Refused(usage, handles, "Conflict")
         ELSE IF descr.active_locks > 0 THEN Refused(usage, handles, "Conflict")
         ELSE Opened(usage, handles,
                     [descr EXCEPT !.active_locks = (@ + 1) % ByteRadix,
                                   !.writelock = TRUE], mode)
    [] mode = "write" ->
         IF descr.writelock THEN Refused(usage, handles, "Conflict")
         ELSE IF descr.active_locks > 0 THEN Refused(usage, handles, "Conflict")
         ELSE Opened(usage, handles, [descr EXCEPT !.writelock = TRUE], mode)
    [] OTHER -> Refused(usage, handles, "Unsupported")

\* variant: navigate's result is not tested
OpenFile_unchecked(name, mode, wl) ==
  /\ Idle
  /\ ncalls < MaxOpens
  /\ ncalls' = ncalls + 1
  /\ LET nav == navigate(Dev, name)
     IN  IF FALSE
         THEN /\ spos' = nav.dev.pos
              /\ ret' = [op |-> "open_file", res |-> "NotFound", name |-> name, mode |-> mode]
              /\ UNCHANGED << file_handles, handle_usage, outstanding >>
         ELSE LET d == DevSeek(nav.dev, SECTOR_SIZE * nav.sect + 4)
                  h == read_header(d, wl)
              IN  /\ spos' = DevAdvance(d, h.used).pos
                  /\ IF ~h.ok
                     THEN /\ ret' = [op |-> "open_file", res |-> "CorruptHeader",
                                     name |-> name, mode |-> mode]
                          /\ UNCHANGED << file_handles, handle_usage, outstanding >>
                     ELSE LET o == open_file_arm(h.fd, mode, handle_usage, file_handles)
                          IN  /\ handle_usage' = o.usage
                              /\ file_handles' = o.handles
                              /\ ret' = [op |-> "open_file", res |-> o.res, val |-> o.val,
                                         name |-> name, mode |-> mode]
                              /\ outstanding' =
                                   IF o.res = "Ok"
                                   THEN outstanding \cup {[h |-> o.val, name |-> name, mode |-> mode]}
                                   ELSE outstanding
  /\ UNCHANGED << storage, sectors, capacity, current_sector, current_position, dir,
                  chains, cur_file, free_sector, free_depth, freeing, crashed,
                  descriptors, headers, debug_assertions, rt >>

\* open_file(name, mode); wl is the writelock read_header leaves unset
OpenFile(name, mode, wl) ==
  /\ Idle
  /\ ncalls < MaxOpens
  /\ ncalls' = ncalls + 1
  /\ LET nav == navigate(Dev, name)
     IN  IF nav.sect = MAX_SECTORS
         THEN /\ spos' = nav.dev.pos
              /\ ret' = [op |-> "open_file", res |-> "NotFound", name |-> name, mode |-> mode]
              /\ UNCHANGED << file_handles, handle_usage, outstanding >>
         ELSE LET d == DevSeek(nav.dev, SECTOR_SIZE * nav.sect + 4)
                  h == read_header(d, wl)
              IN  /\ spos' = DevAdvance(d, h.used).pos
                  /\ IF ~h.ok
                     THEN /\ ret' = [op |-> "open_file", res |-> "CorruptHeader",
                                     name |-> name, mode |-> mode]
                          /\ UNCHANGED << file_handles, handle_usage, outstanding >>
                     ELSE LET o == open_file_arm(h.fd, mode, handle_usage, file_handles)
                          IN  /\ handle_usage' = o.usage
                              /\ file_handles' = o.handles
                              /\ ret' = [op |-> "open_file", res |-> o.res, val |-> o.val,
                                         name |-> name, mode |-> mode]
                              /\ outstanding' =
                                   IF o.res = "Ok"
                                   THEN outstanding \cup {[h |-> o.val, name |-> name, mode |-> mode]}
                                   ELSE outstanding
  /\ UNCHANGED << storage, sectors, capacity, current_sector, current_position, dir,
                  chains, cur_file, free_sector, free_depth, freeing, crashed,
                  descriptors, headers, debug_assertions, rt >>

\* delete_handle on slot i
delete_handle(usage, handles, i) ==
  IF usage[i]
  THEN [usage |-> [usage EXCEPT ![i] = FALSE],
        handles |-> [handles EXCEPT ![i].fdesc.filetype = "error",
                                    ![i].fdesc.fileflag = "error",
                                    ![i].fdesc.filename = from_ascii_str(<< >>)]]
  ELSE [usage |-> usage, handles |-> handles]

DeleteHandle(i) ==
  /\ Idle
  /\ LET r == delete_handle(handle_usage, file_handles, i)
     IN  /\ handle_usage' = r.usage
         /\ file_handles' = r.handles
  /\ outstanding' = { o \in outstanding : o.h # i }
  /\ ret' = [op |-> "delete_handle", res |-> "Ok", fd |-> i]
  /\ UNCHANGED << storage, spos, sectors, capacity, current_sector, current_position, dir,
                  chains, cur_file, free_sector, free_depth, freeing, crashed, ncalls,
                  descriptors, headers, debug_assertions, rt >>

\* FileHeader's unlock_read and unlock_write, as the spec's 4.3 states them
unlock_read(hd) == [hd EXCEPT !.active_readers = (@ + ByteRadix - 1) % ByteRadix]
unlock_write(hd) == [hd EXCEPT !.write_locked = FALSE]

\* close(fd) over the descriptors and headers tables
close(desc, hds, fd) ==
  LET index == desc[fd].index
  IN  [descriptors |-> [desc EXCEPT ![fd].used = FALSE],
       headers |-> [hds EXCEPT ![index] =
                      IF desc[fd].writing THEN unlock_write(@) ELSE unlock_read(@)]]

Close(fd) ==
  /\ Idle
  /\ \E o \in outstanding : o.h = fd
  /\ IF fd \notin DescIds
     THEN /\ crashed' = "index out of bounds"
          /\ ret' = [op |-> "close", res |-> "abort", fd |-> fd]
          /\ UNCHANGED << descriptors, headers, outstanding >>
     ELSE IF debug_assertions /\ ~descriptors[fd].used
     THEN /\ crashed' = "cannot close unused fd"
          /\ ret' = [op |-> "close", res |-> "abort", fd |-> fd]
          /\ UNCHANGED << descriptors, headers, outstanding >>
     ELSE LET c == close(descriptors, headers, fd)
          IN  /\ descriptors' = c.descriptors
              /\ headers' = c.headers
              /\ outstanding' = { o \in outstanding : o.h # fd }
              /\ crashed' = crashed
              /\ ret' = [op |-> "close", res |-> "Ok", fd |-> fd,
                         held |-> { o \in outstanding : o.h = fd }]
  /\ rt' = IF rt.phase = "created" /\ fd = rt.fd /\ crashed' = "no"
           THEN [rt EXCEPT !.phase = "closed"] ELSE rt
  /\ UNCHANGED << storage, spos, sectors, capacity, current_sector, current_position,
                  file_handles, handle_usage, dir, chains, cur_file, free_sector,
                  free_depth, freeing, ncalls, debug_assertions >>

\* close(fd) on a descriptor that no open returned or that was closed since
CloseUnused(fd) ==
  /\ Idle
  /\ ~descriptors[fd].used
  /\ ~(\E o \in outstanding : o.h = fd)
  /\ ncalls < MaxOpens
  /\ ncalls' = ncalls + 1
  /\ IF debug_assertions
     THEN /\ crashed' = "cannot close unused fd"
          /\ ret' = [op |-> "close_unused", res |-> "abort", fd |-> fd]
          /\ UNCHANGED << descriptors, headers >>
     ELSE LET c == close(descriptors, headers, fd)
          IN  /\ descriptors' = c.descriptors
              /\ headers' = c.headers
              /\ crashed' = crashed
              /\ ret' = [op |-> "close_unused", res |-> "Ok", fd |-> fd]
  /\ UNCHANGED << storage, spos, sectors, capacity, current_sector, current_position,
                  file_handles, handle_usage, dir, chains, cur_file, free_sector,
                  free_depth, freeing, debug_assertions, outstanding, rt >>

\* ------------------------------------------------- fixed-table file access
\* '/' in the scaled byte
Slash == 47 % ByteRadix
SlashPath == from_ascii_str(<< Slash >>)
as_slice(p) == SelectSeq(p, LAMBDA c : c # 0)

\* create(path): the path's first byte is tested (an empty path has none); a
\* path that starts with '/' enters a loop whose counter never moves
create(path) ==
  LET pt == as_slice(path)
  IN  IF Len(pt) = 0 THEN "index out of bounds"
      ELSE IF pt[1] # Slash THEN "Err"
      ELSE "hang"

Create(path) ==
  /\ Idle
  /\ ret.op # "create_path"
  /\ spos' = 0
  /\ LET r == create(path)
     IN  /\ crashed' = IF r = "Err" THEN crashed ELSE r
         /\ ret' = [op |-> "create_path", res |-> IF r = "Err" THEN r ELSE "abort",
                    path |-> path]
  /\ UNCHANGED << storage, sectors, capacity, current_sector, current_position, tables,
                  dir, chains, cur_file, free_sector, free_depth, freeing, ncalls >>

file_position(index) == index * FILE_RAW_SIZE

\* the first descriptor not in use
alloc_descriptor(desc) ==
  IF \E d \in DescIds : ~desc[d].used
  THEN CHOOSE d \in DescIds : ~desc[d].used /\ \A e \in DescIds : e < d => desc[e].used
  ELSE MAX_DESCRIPTORS

\* the first header of that name
find_file(hds, name) ==
  IF \E f \in FileIds : hds[f].name = name
  THEN CHOOSE f \in FileIds : hds[f].name = name /\ \A g \in FileIds : g < f => hds[g].name # name
  ELSE MAX_FILES

\* FileHeader's can_read and lock_read, as the spec's 4.3 states them
can_read(hd) == ~hd.write_locked
lock_read(hd) == [hd EXCEPT !.active_readers = (@ + 1) % ByteRadix]

\* open_read(path); the store into descriptors[desc] is commented out
open_read(desc, hds, path) ==
  LET d == alloc_descriptor(desc)
      f == find_file(hds, path)
  IN  IF d = MAX_DESCRIPTORS THEN [res |-> "Err", headers |-> hds]
      ELSE IF f = MAX_FILES THEN [res |-> "Err", headers |-> hds]
      ELSE IF can_read(hds[f])
           THEN [res |-> "Ok", val |-> d, headers |-> [hds EXCEPT ![f] = lock_read(@)]]
           ELSE [res |-> "Err", headers |-> hds]

OpenRead(path) ==
  /\ Idle
  /\ ncalls < MaxIO
  /\ ncalls' = ncalls + 1
  /\ LET o == open_read(descriptors, headers, path)
     IN  /\ headers' = o.headers
         /\ IF o.res = "Ok"
            THEN /\ outstanding' = outstanding \cup {[h |-> o.val, name |-> path, mode |-> "read"]}
                 /\ ret' = [op |-> "open_read", res |-> "Ok", val |-> o.val, path |-> path]
                 /\ rt' = IF rt.phase = "closed" /\ path = NameA
                          THEN [rt EXCEPT !.phase = "reopened", !.fd = o.val] ELSE rt
            ELSE /\ ret' = [op |-> "open_read", res |-> "Err", path |-> path]
                 /\ UNCHANGED << outstanding, rt >>
  /\ UNCHANGED << storage, spos, sectors, capacity, current_sector, current_position,
                  file_handles, handle_usage, dir, chains, cur_file, free_sector,
                  free_depth, freeing, crashed, descriptors, debug_assertions >>

\* FsWriter::write over wr = [pos, len, max_len]
FsWriter_write(wr, dev, buf) ==
  LET remaining_space == wr.max_len - wr.len
      max_write == Min(Len(buf), remaining_space)
      d == DevWrite(dev, SubSeq(buf, 1, max_write))
      written == d.pos - dev.pos
  IN  [n |-> written, pos |-> wr.pos + written, len |-> wr.len + written, dev |-> d]

\* get_writer(fd), then one write of n bytes through the writer
WriteVia(fd, n) ==
  /\ Idle
  /\ \E o \in outstanding : o.h = fd
  /\ ncalls < MaxIO
  /\ ncalls' = ncalls + 1
  /\ LET desc == descriptors[fd]
     IN  IF debug_assertions /\ ~(desc.writing /\ desc.used)
         THEN /\ crashed' = "invalid descriptor"
              /\ ret' = [op |-> "write_via", res |-> "abort", fd |-> fd]
              /\ UNCHANGED << storage, spos, descriptors, headers, rt >>
         ELSE LET w == FsWriter_write([pos |-> desc.pos, len |-> headers[desc.index].len,
                                       max_len |-> MAX_FILE_SIZE],
                                      DevSeek(Dev, file_position(desc.index) + desc.pos),
                                      Payload(n))
              IN  /\ storage' = w.dev.data
                  /\ spos' = w.dev.pos
                  /\ descriptors' = [descriptors EXCEPT ![fd].pos = w.pos]
                  /\ headers' = [headers EXCEPT ![desc.index].len = w.len]
                  /\ crashed' = crashed
                  /\ ret' = [op |-> "write_via", res |-> "Ok", fd |-> fd, n |-> w.n]
                  /\ rt' = IF rt.phase = "created" /\ fd = rt.fd
                           THEN [rt EXCEPT !.B = @ \o SubSeq(Payload(n), 1, w.n)] ELSE rt
  /\ UNCHANGED << sectors, capacity, current_sector, current_position, file_handles,
                  handle_usage, dir, chains, cur_file, free_sector, free_depth, freeing,
                  debug_assertions, outstanding >>

\* variant: the read is bounded by the buffer alone
FsReader_read_unbounded(rd, dev, n) ==
  LET read == DevAdvance(dev, n).pos - dev.pos
      got == DevRead(dev, read)
  IN  [n |-> read, pos |-> rd.pos + read, dev |-> DevAdvance(dev, n),
       buf |-> [i \in 1 .. n |-> IF i <= read THEN got[i] ELSE 0]]

\* FsReader::read over rd = [pos, len] into a zeroed buffer of n bytes; the
\* subtraction wraps when pos is past len
FsReader_read(rd, dev, n) ==
  LET remaining_data == IF rd.len >= rd.pos THEN rd.len - rd.pos
                        ELSE U32_MAX - (rd.pos - rd.len) + 1
      max_read == Min(n, remaining_data)
      read == DevAdvance(dev, max_read).pos - dev.pos
      got == DevRead(dev, read)
  IN  [n |-> read, pos |-> rd.pos + read, dev |-> DevAdvance(dev, max_read),
       buf |-> [i \in 1 .. n |-> IF i <= read THEN got[i] ELSE 0]]

\* get_reader(fd), then one read into a zeroed buffer of n bytes
ReadVia(fd, n) ==
  /\ Idle
  /\ \E o \in outstanding : o.h = fd
  /\ ncalls < MaxIO
  /\ ncalls' = ncalls + 1
  /\ LET desc == descriptors[fd]
     IN  IF debug_assertions /\ ~(~desc.writing /\ desc.used)
         THEN /\ crashed' = "invalid descriptor"
              /\ ret' = [op |-> "read_via", res |-> "abort", fd |-> fd]
              /\ UNCHANGED << spos, descriptors, rt >>
         ELSE LET r == FsReader_read([pos |-> desc.pos, len |-> headers[desc.index].len],
                                     DevSeek(Dev, file_position(desc.index) + desc.pos), n)
              IN  /\ spos' = r.dev.pos
                  /\ descriptors' = [descriptors EXCEPT ![fd].pos = r.pos]
                  /\ crashed' = crashed
                  /\ ret' = [op |-> "read_via", res |-> "Ok", fd |-> fd, asked |-> n,
                             n |-> r.n, buf |-> r.buf, from |-> desc.pos,
                             len |-> headers[desc.index].len]
                  /\ rt' = IF rt.phase = "reopened" /\ fd = rt.fd /\ n >= Len(rt.B)
                           THEN [rt EXCEPT !.phase = "read", !.got = SubSeq(r.buf, 1, r.n)]
                           ELSE rt
  /\ UNCHANGED << storage, sectors, capacity, current_sector, current_position,
                  file_handles, handle_usage, dir, chains, cur_file, free_sector,
                  free_depth, freeing, headers, debug_assertions, outstanding >>

\* A state of the fixed-table design: file 0 exists with len bytes recorded,
\* descriptor 0 is open on it at offset 0, for writing or for reading.
InitIO ==
  /\ new
  /\ capacity = StorageLen
  /\ \E len \in 0 .. MAX_FILE_SIZE, writing \in BOOLEAN :
       /\ descriptors = [d \in DescIds |->
                           IF d = 0 THEN [used |-> TRUE, index |-> 0, pos |-> 0,
                                          writing |-> writing]
                           ELSE NoDescriptor]
       /\ headers = [f \in FileIds |->
                       IF f = 0 THEN [exists |-> TRUE, name |-> NameA, len |-> len,
                                      active_readers |-> IF writing THEN 0 ELSE 1,
                                      write_locked |-> writing]
                       ELSE NON_EXISTING_FILE]
       /\ outstanding = {[h |-> 0, name |-> NameA,
                          mode |-> IF writing THEN "write" ELSE "read"]}
       /\ rt = IF writing /\ len = 0 THEN [RtOff EXCEPT !.phase = "created"] ELSE RtOff

IONext ==
  \/ \E path \in {NameA, NameB, SlashPath, from_ascii_str(<< >>)} : Create(path)
  \/ \E path \in Names : OpenRead(path)
  \/ \E fd \in DescIds : Close(fd)
  \/ \E fd \in DescIds, n \in 1 .. MaxWrite : WriteVia(fd, n)
  \/ \E fd \in DescIds, n \in 0 .. MaxBuf : ReadVia(fd, n)

SpecIO == InitIO /\ [][IONext]_vars

LockNext ==
  \/ MakeFile(NameA, "default", "readwrite")
  \/ \E name \in Names, mode \in OpenModes, wl \in BOOLEAN : OpenFile(name, mode, wl)
  \/ \E fd \in HandleIds \cup {MAX_OPEN_FILES} : Close(fd)
  \/ \E i \in HandleIds : DeleteHandle(i)
  \/ \E fd \in DescIds : CloseUnused(fd)

\* the store sized for every sector
InitLock == Init /\ capacity = StorageLen

SpecLock == InitLock /\ [][LockNext]_vars

\* ------------------------------------------------------ header round trip
LockCounts == {0, 1}
Descriptors ==
  { FileDescriptor(t, f, name, locks, wl) :
      t \in FileTypes, f \in FileFlags, name \in Names, locks \in LockCounts,
      wl \in BOOLEAN }

\* write_header(s, d) with the store at the start of sector s
EncodeHeader(s, d) ==
  /\ Idle
  /\ LET w == write_header(DevSeek(Dev, SECTOR_SIZE * s), d)
     IN  /\ storage' = w.data
         /\ spos' = w.pos
  /\ current_sector' = s
  /\ current_position' = SECTOR_SIZE * s + 4
  /\ ret' = [op |-> "write_header", res |-> "Ok", at |-> s, d |-> d]
  /\ UNCHANGED << sectors, capacity, tables, dir, chains, cur_file, free_sector,
                  free_depth, freeing, crashed, ncalls >>

\* read_header over the bytes the last write_header wrote after the pointer
DecodeHeader(wl) ==
  /\ Idle
  /\ ret.op = "write_header"
  /\ LET d == DevSeek(Dev, SECTOR_SIZE * ret.at + 4)
         h == read_header(d, wl)
     IN  /\ spos' = DevAdvance(d, h.used).pos
         /\ ret' = IF h.ok
                   THEN [op |-> "read_header", res |-> "Ok", d |-> ret.d, got |-> h.fd]
                   ELSE [op |-> "read_header", res |-> "CorruptHeader", d |-> ret.d]
  /\ UNCHANGED << storage, sectors, capacity, current_sector, current_position, tables,
                  dir, chains, cur_file, free_sector, free_depth, freeing, crashed, ncalls >>

CodecNext ==
  \/ \E d \in Descriptors : EncodeHeader(MAX_SECTORS - 1, d)
  \/ \E wl \in BOOLEAN : DecodeHeader(wl)

SpecCodec == InitLock /\ [][CodecNext]_vars

AllocNext ==
  \/ \E name \in Names, ftype \in {"default", "folder"} : MakeFile(name, ftype, "readwrite")
  \/ \E name \in Names : SeekFile(name)
  \/ \E n \in 1 .. MaxWrite : WriteAuto(n)
  \/ \E name \in Names : FreeAutoCall(name)
  \/ \E name \in Names : FreeChildrenCall(name)
  \/ FreeAutoStep

\* the allocator and the chained write make no assertion
InitAlloc == Init /\ ~debug_assertions

SpecAlloc == InitAlloc /\ [][AllocNext]_vars

\* ---------------------------------------------------------------- listing
\* the first header that does not exist
find_empty_slot(hds) ==
  IF \E f \in FileIds : ~hds[f].exists
  THEN CHOOSE f \in FileIds : ~hds[f].exists /\ \A g \in FileIds : g < f => hds[g].exists
  ELSE MAX_FILES

ListNames == { from_ascii_str(<< b >>) : b \in 1 .. (ByteRadix - 1) }

\* A create that succeeds, in the fixed-table design (create in fs.rs never
\* does): the first empty header slot takes the name, a descriptor is opened
\* on it for writing and returned.
CreateEntry(name) ==
  /\ Idle
  /\ find_file(headers, name) = MAX_FILES
  /\ LET d == alloc_descriptor(descriptors)
         f == find_empty_slot(headers)
     IN  /\ d # MAX_DESCRIPTORS
         /\ f # MAX_FILES
         /\ headers' = [headers EXCEPT ![f] =
                          [NON_EXISTING_FILE EXCEPT !.exists = TRUE, !.name = name,
                                                    !.write_locked = TRUE]]
         /\ descriptors' = [descriptors EXCEPT ![d] =
                              [used |-> TRUE, index |-> f, pos |-> 0, writing |-> TRUE]]
         /\ outstanding' = outstanding \cup {[h |-> d, name |-> name, mode |-> "write"]}
         /\ ret' = [op |-> "create_entry", res |-> "Ok", val |-> d, name |-> name]
  /\ UNCHANGED << storage, spos, sectors, capacity, current_sector, current_position,
                  file_handles, handle_usage, dir, chains, cur_file, free_sector,
                  free_depth, freeing, crashed, ncalls, debug_assertions, rt >>

\* variant: a header is yielded whether or not it exists
FileIterator_next_any(hs) ==
  IF hs = << >> THEN [some |-> FALSE, rest |-> << >>]
  ELSE [some |-> TRUE, name |-> Head(hs).name, rest |-> Tail(hs)]

\* FileIterator::next over the slice hs of headers still to visit
RECURSIVE FileIterator_loop(_)
FileIterator_loop(hs) ==
  IF hs = << >> THEN [some |-> FALSE, rest |-> << >>]
  ELSE IF Head(hs).exists THEN [some |-> TRUE, name |-> Head(hs).name, rest |-> Tail(hs)]
  ELSE FileIterator_loop(Tail(hs))

FileIterator_next(hs) == FileIterator_loop(hs)

\* the items an iterator yields until it returns None, and the calls that took
RECURSIVE collect(_)
collect(hs) ==
  LET r == FileIterator_next(hs)
  IN  IF r.some
      THEN LET c == collect(r.rest)
           IN  [files |-> << r.name >> \o c.files, steps |-> c.steps + 1]
      ELSE [files |-> << >>, steps |-> 1]

\* list_files(), iterated to its end
ListFiles ==
  /\ Idle
  /\ LET c == collect([i \in 1 .. MAX_FILES |-> headers[i - 1]])
     IN  ret' = [op |-> "list_files", res |-> "Ok", files |-> c.files, steps |-> c.steps]
  /\ UNCHANGED << storage, spos, sectors, capacity, current_sector, current_position,
                  tables, dir, chains, cur_file, free_sector, free_depth, freeing,
                  crashed, ncalls >>

ListNext ==
  \/ \E name \in ListNames : CreateEntry(name)
  \/ ListFiles

SpecList == InitLock /\ [][ListNext]_vars

\* ------------------------------------------------------------- formatting
\* format_storage(storage, len): both of its checks are commented out
format_storage(dev, len) == [res |-> "Ok", dev |-> dev]

\* a zeroed store (tests::empty_backing_storage) no file system was made on
InitFormat ==
  /\ storage = [a \in 0 .. (StorageLen - 1) |-> 0]
  /\ spos = 0
  /\ sectors = [i \in SectorIds |-> FALSE]
  /\ capacity = 0
  /\ current_sector = 0
  /\ current_position = 0
  /\ handle_usage = [i \in HandleIds |-> FALSE]
  /\ file_handles = [i \in HandleIds |-> EmptyHandle]
  /\ dir = [n \in Names |-> NoSector]
  /\ chains = [h \in SectorIds |-> << >>]
  /\ cur_file = NoSector
  /\ free_sector = NoSector
  /\ free_depth = 0
  /\ freeing = [kind |-> "none"]
  /\ crashed = "no"
  /\ ncalls = 0
  /\ descriptors = [d \in DescIds |-> NoDescriptor]
  /\ headers = [f \in FileIds |-> NON_EXISTING_FILE]
  /\ debug_assertions = FALSE
  /\ outstanding = {}
  /\ rt = RtOff
  /\ ret = [op |-> "blank", res |-> "Ok"]

FormatStorage(len) ==
  /\ ret.op = "blank"
  /\ LET f == format_storage(Dev, len)
     IN  /\ storage' = f.dev.data
         /\ spos' = f.dev.pos
         /\ ret' = [op |-> "format_storage", res |-> f.res, len |-> len]
  /\ UNCHANGED << sectors, capacity, current_sector, current_position, tables, dir, chains,
                  cur_file, free_sector, free_depth, freeing, crashed, ncalls >>

\* FileSystem::new(storage, size) on the store as format_storage left it
NewFs(size) ==
  /\ ret.op \in {"blank", "format_storage"}
  /\ LET dev == create_fd(DevSeek(Dev, 0), "folder", "special", RootName)
     IN  storage' = dev.data /\ spos' = dev.pos
  /\ sectors' = [i \in SectorIds |-> i = 0]
  /\ capacity' = size
  /\ current_sector' = 0
  /\ current_position' = 0
  /\ handle_usage' = [i \in HandleIds |-> FALSE]
  /\ file_handles' = [i \in HandleIds |-> EmptyHandle]
  /\ chains' = [h \in SectorIds |-> IF h = 0 THEN << 0 >> ELSE << >>]
  /\ ret' = [op |-> "new", res |-> "Ok", after |-> ret]
  /\ UNCHANGED << dir, cur_file, free_sector, free_depth, freeing, crashed, ncalls,
                  descriptors, headers, debug_assertions, outstanding, rt >>

FormatNext ==
  \/ \E len \in 0 .. StorageLen : FormatStorage(len)
  \/ \E size \in Capacities : NewFs(size)

SpecFormat == InitFormat /\ [][FormatNext]_vars

\* the chained write alone, with buffers that reach across a sector
WriteNext ==
  \/ \E name \in Names : MakeFile(name, "default", "readwrite")
  \/ \E name \in Names : SeekFile(name)
  \/ \E n \in 1 .. MaxLong : WriteAuto(n)

SpecWrite == InitAlloc /\ [][WriteNext]_vars

\* ------------------------------------------------------- chain pointer codec
U32 == 0 .. U32_MAX

\* a chain pointer stored at the start of sector s, as write_auto and
\* write_header store it: seek to the sector, write_shorthead(x)
WriteShorthead(s, x) ==
  /\ Idle
  /\ ret.op = "new"
  /\ LET d == write_shorthead(DevSeek(Dev, SECTOR_SIZE * s), x)
     IN  /\ storage' = d.data
         /\ spos' = d.pos
  /\ current_position' = current_position + 4
  /\ ret' = [op |-> "write_shorthead", res |-> "Ok", sector |-> s, x |-> x, val |-> x]
  /\ UNCHANGED << sectors, capacity, current_sector, tables, dir, chains, cur_file,
                  free_sector, free_depth, freeing, crashed, ncalls >>

\* the pointer of that sector read back, as free_auto reads it: seek to the
\* sector, read_shorthead()
ReadShorthead ==
  /\ Idle
  /\ ret.op = "write_shorthead"
  /\ LET d == DevSeek(Dev, SECTOR_SIZE * ret.sector)
     IN  /\ spos' = DevAdvance(d, 4).pos
         /\ ret' = [ret EXCEPT !.op = "read_shorthead", !.val = read_shorthead(d)]
  /\ current_position' = current_position + 4
  /\ UNCHANGED << storage, sectors, capacity, current_sector, tables, dir, chains,
                  cur_file, free_sector, free_depth, freeing, crashed, ncalls >>

PointerNext ==
  \/ \E s \in SectorIds \ {0}, x \in U32 : WriteShorthead(s, x)
  \/ ReadShorthead

SpecPointer == InitAlloc /\ [][PointerNext]_vars

Next == LockNext \/ AllocNext \/ IONext \/ CodecNext \/ WriteNext \/ ListNext \/ PointerNext

Spec == Init /\ [][Next]_vars

\* ------------------------------------------------------------------ claims
\* the indices get_valid_sector scans
ScanRange == { i \in SectorIds : i < capacity \div SECTOR_SIZE }

\* C6: free_auto(head) marks free exactly the sectors of head's chain and
\* changes the in-use flag of no sector outside it.
C6_FreesExactlyChain ==
  freeing.kind = "free_auto" =>
    /\ \A i \in SectorIds \ freeing.chain : sectors[i] = freeing.before[i]
    /\ (free_sector = NoSector => \A i \in freeing.chain : ~sectors[i])

C9_FreeRestoresK ==
  (freeing.kind = "free_auto" /\ freeing.full) =>
    /\ crashed = "no"
    /\ Cardinality(FreeSet) <= Cardinality(freeing.chain)
    /\ (free_sector = NoSector => Cardinality(FreeSet) = Cardinality(freeing.chain))

\* C1: on one path, never two handles opened for writing, nor a reader together
\* with a writer, outstanding at once.
C1_LockExclusive ==
  \A a, b \in outstanding :
    (a # b /\ a.name = b.name) => (a.mode = "read" /\ b.mode = "read")

\* C2: closing a handle that open_file returned releases the lock it took: the
\* close returns, the handle's slot is given back and no longer holds the write
\* lock, and a reader's close takes its one count off active_locks.
C2_CloseReleasesLock ==
  [][\A fd \in HandleIds :
       (Close(fd) /\ \E o \in outstanding : o.h = fd) =>
         /\ ret'.res = "Ok"
         /\ ~handle_usage'[fd]
         /\ ~file_handles'[fd].fdesc.writelock
         /\ file_handles[fd].open_mode = "read" =>
              file_handles'[fd].fdesc.active_locks = file_handles[fd].fdesc.active_locks - 1
    ]_vars

C4_RoundTrip ==
  /\ ret.op = "create_path" => ret.res = "Ok"
  /\ (rt.phase # "off" /\ ret.op \in {"write_via", "close", "read_via"} /\ ret.fd = rt.fd)
       => ret.res = "Ok"
  /\ rt.phase = "read" => rt.got = rt.B

\* C5: a read returns at most (len - pos) bytes, leaves the buffer beyond the
\* count as it was, and leaves the cursor at or before len.
C5_ReadBounded ==
  (ret.op = "read_via" /\ ret.res = "Ok") =>
    /\ ret.from <= ret.len
    /\ ret.n <= ret.len - ret.from
    /\ \A i \in (ret.n + 1) .. ret.asked : ret.buf[i] = 0
    /\ descriptors[ret.fd].pos <= ret.len

\* a read asked for more than the file held and stopped before a stale byte
C5_Witness ==
  /\ ret.op = "read_via" /\ ret.res = "Ok"
  /\ ret.n > 0 /\ ret.n < ret.asked
  /\ storage[file_position(descriptors[ret.fd].index) + ret.from + ret.n] # 0

\* C10: read_header over the bytes write_header wrote for d yields d in every
\* field.
C10_HeaderRoundTrip ==
  ret.op = "read_header" => (ret.res = "Ok" /\ ret.got = ret.d)

C12_LowestFreeSlot ==
  [][\A name \in Names, mode \in OpenModes, wl \in BOOLEAN :
       (OpenFile(name, mode, wl) /\ ret'.res = "Ok") =>
         LET free == { i \in HandleIds : ~handle_usage[i] }
         IN  /\ free # {}
             /\ ret'.val \in free
             /\ \A j \in free : ret'.val <= j
             /\ handle_usage'[ret'.val]
    ]_vars

\* C13: closing a handle whose slot is not in use is rejected (an error or an
\* abort) and changes neither the handle table nor any lock state.
C13_CloseUnusedRejected ==
  [][\A fd \in DescIds :
       CloseUnused(fd) =>
         /\ ret'.res \in {"Err", "abort"}
         /\ descriptors' = descriptors
         /\ headers' = headers
         /\ handle_usage' = handle_usage
         /\ file_handles' = file_handles
    ]_vars

\* C14: a write that needs a further sector when the allocator has none fails
\* with OutOfSpace, changes no byte outside the sectors of the file's chain,
\* and leaves in place the bytes it put into the chain before it failed.
C14_OutOfSpaceKeepsChain ==
  [][\A n \in 1 .. MaxLong :
       LET room == SECTOR_SIZE - (current_position % SECTOR_SIZE)
       IN  (WriteAuto(n) /\ n > room /\ Exhausted) =>
             /\ ret'.res = "OutOfSpace"
             /\ \A a \in 0 .. (StorageLen - 1) :
                  storage'[a] # storage[a] => (a \div SECTOR_SIZE) \in ChainOf(cur_file)
             /\ \A k \in 0 .. (room - 1) :
                  current_position + k < StorageLen =>
                    storage'[current_position + k] = PayloadByte
    ]_vars

\* C15: format_storage returns an error for every len below one sector, and
\* when it accepts a len it leaves a root directory header read_header decodes
\* in sector 0.
C15_FormatChecksAndWritesRoot ==
  ret.op = "format_storage" =>
    /\ ret.len < SECTOR_SIZE => ret.res = "Err"
    /\ ret.res = "Ok" =>
         \/ read_header(DevSeek(Dev, 0), FALSE).ok
         \/ read_header(DevSeek(Dev, 4), FALSE).ok

C17_CreateAllocates ==
  (ret.op = "create_path" /\ ret.path \in Names /\ ret.path # NameA) =>
    /\ ret.res = "Ok"
    /\ Cardinality({ i \in SectorIds : sectors[i] }) = 2
    /\ \/ dir[ret.path] # NoSector
       \/ find_file(headers, ret.path) # MAX_FILES

\* C18: a descriptor that is write-locked has no active reader, and one with
\* active readers is not write-locked; so also the descriptor of a handle that
\* an open in ReadWrite mode returned.
C18_WriterExcludesReaders ==
  \A i \in HandleIds :
    handle_usage[i] =>
      LET d == file_handles[i].fdesc
      IN  /\ d.writelock => d.active_locks = 0
          /\ d.active_locks > 0 => ~d.writelock

\* C19: the reader count of a path equals the number of outstanding handles
\* opened on it in Read mode (read from the stored descriptor, or else from
\* the descriptor a handle on the path carries).
C19_ReaderCount ==
  \A name \in Names :
    dir[name] # NoSector =>
      LET n == Cardinality({ o \in outstanding : o.name = name /\ o.mode = "read" })
      IN  \/ storage[SECTOR_SIZE * dir[name] + 4 + 3] = n
          \/ \E i \in HandleIds :
               /\ handle_usage[i]
               /\ file_handles[i].fdesc.filename = name
               /\ file_handles[i].fdesc.active_locks = n

\* C20: the sectors of a written file form one forward chain: the first four
\* bytes of each sector hold the index of the sector allocated next for the
\* file, those of the last sector hold the sentinel, and no payload byte lies
\* on them.
C20_ChainWellFormed ==
  \A h \in SectorIds \ {0} :
    LET c == chains[h]
        pointer(s) == [i \in 1 .. 4 |-> storage[s * SECTOR_SIZE + i - 1]]
    IN  c # << >> =>
          /\ \A k \in 1 .. (Len(c) - 1) : pointer(c[k]) = transform_u32_to_array_of_u8(c[k + 1])
          /\ pointer(c[Len(c)]) = transform_u32_to_array_of_u8(U32_MAX)

\* C21: free_auto started on the head of a file's chain terminates and stays
\* inside the allocator's range: every activation runs on a sector below
\* min(MAX_SECTORS, capacity / SECTOR_SIZE), and the pointer it reads there is not that sector itself (the store does
\* not change during the walk, so such an activation calls itself for ever).
C21_FreeAutoTerminates ==
  (freeing.kind = "free_auto" /\ free_sector # NoSector) =>
    /\ free_sector < UsableSectors(capacity)
    /\ read_shorthead(DevSeek(Dev, SECTOR_SIZE * free_sector)) # free_sector

\* C22: sector 0 is marked in use in every state of an initialized file
\* system, and no sector get_valid_sector handed out is sector 0.
C22_SectorZeroInUse ==
  /\ sectors[0]
  /\ (ret.op = "create" /\ ret.res = "Ok") => ret.val # 0
  /\ ret.op = "write" => \A k \in 1 .. Len(ret.got) : ret.got[k] # 0

\* C23: a chain pointer read back by read_shorthead is the value
\* write_shorthead was given, for every 32-bit value, and the four bytes
\* stored are the value's digits, most significant first.
C23_PointerRoundTrip ==
  ret.op \in {"write_shorthead", "read_shorthead"} =>
    /\ \A i \in 1 .. 4 :
         storage[SECTOR_SIZE * ret.sector + i - 1] = (ret.x \div (ByteRadix ^ (4 - i))) % ByteRadix
    /\ ret.op = "read_shorthead" => ret.val = ret.x

\* C24: the handle a successful open returns has its cursor on the first
\* payload byte of the file's first sector, right after the header there (as
\* an offset in the store or in the sector); in append mode it is on the end
\* of the file, which is where the last write to the file stopped.
C24_OpenCursor ==
  [][\A name \in Names, mode \in OpenModes, wl \in BOOLEAN :
       (OpenFile(name, mode, wl) /\ ret'.res = "Ok" /\ ret'.val \in HandleIds) =>
         LET cursor == file_handles'[ret'.val].current_position
             end == IF cur_file = dir[name] THEN current_position
                    ELSE PayloadStart(dir[name])
         IN  IF mode = "append"
             THEN cursor % SECTOR_SIZE = end % SECTOR_SIZE
             ELSE cursor % SECTOR_SIZE = PayloadStart(dir[name]) % SECTOR_SIZE
    ]_vars

\* C25: every byte a write changes lies in a sector that, when the write
\* returns, is marked in use and is one of the sectors of the chain of the
\* file being written.
C25_WritesStayInChain ==
  [][\A n \in 1 .. MaxLong :
       WriteAuto(n) =>
         \A a \in 0 .. (StorageLen - 1) :
           storage'[a] # storage[a] =>
             LET s == a \div SECTOR_SIZE
             IN  /\ s \in SectorIds
                 /\ sectors'[s]
                 /\ \E k \in 1 .. Len(chains'[cur_file]) : chains'[cur_file][k] = s
    ]_vars

====
